---- MODULE Spec2Model ----
(***************************************************************************)
(* Snake Game API (src/app/main.py): the scores table and the handlers     *)
(* that append to it and compute the leaderboard, the per-player summary,  *)
(* the global statistics and the per-player history.                       *)
(*                                                                         *)
(* A float with one decimal place is represented by the integer number of  *)
(* tenths (average_score 150.0 is 1500).  A player_name is a sequence of   *)
(* characters.  created_at is an integer reading of the clock.             *)
(***************************************************************************)
EXTENDS Integers, Sequences, FiniteSets, TLC

(* ---------------- bound of the model ---------------- *)
MaxRecords == 3

(* ---------------- program constants ---------------- *)
MinNameLen == 1
MaxNameLen == 50
MinScore == 0
MinSnakeLength == 1
MinDuration == 0
DefaultLimit == 10
DefaultHistoryLimit == 20

DefaultName == <<"P", "l", "a", "y", "e", "r">>
NameA == <<"A">>
EmptyName == <<>>
LongName == [i \in 1..(MaxNameLen + 1) |-> "x"]

(* an optional request parameter: given with a value, or left out *)
Omitted == [given |-> FALSE]
Given(v) == [given |-> TRUE, value |-> v]

(* ---------------- inputs a client may send ---------------- *)
ValidSubmissions ==
    [player_name : {Omitted, Given(NameA)},
     score : {MinScore, MinScore + 1},
     snake_length : {MinSnakeLength, MinSnakeLength + 1},
     duration_seconds : {MinDuration}]

Baseline ==
    [player_name |-> Omitted, score |-> MinScore,
     snake_length |-> MinSnakeLength, duration_seconds |-> MinDuration]

(* one field out of range each *)
InvalidSubmissions ==
    {[Baseline EXCEPT !.player_name = Given(EmptyName)],
     [Baseline EXCEPT !.player_name = Given(LongName)],
     [Baseline EXCEPT !.score = MinScore - 1],
     [Baseline EXCEPT !.snake_length = MinSnakeLength - 1],
     [Baseline EXCEPT !.duration_seconds = MinDuration - 1]}

Submissions == ValidSubmissions \cup InvalidSubmissions
ClockReadings == {0, 1}
LimitInputs == {Omitted} \cup {Given(n) : n \in {0 - 1, 0, 1, 2}}
QueryNames == {Omitted, Given(NameA)}

VARIABLES store, clock, accepted, resp, worker

vars == <<store, clock, accepted, resp, worker>>

Min(a, b) == IF a < b THEN a ELSE b

(* ---------------- schemas.py: ScoreCreate ---------------- *)
WithDefault(a, d) == IF a.given THEN a.value ELSE d

ScoreCreateValid_NoScoreBound(d) ==
    /\ Len(d.player_name) >= MinNameLen
    /\ Len(d.player_name) <= MaxNameLen
    /\ d.snake_length >= MinSnakeLength
    /\ d.duration_seconds >= MinDuration

ScoreCreateValid(d) ==
    /\ Len(d.player_name) >= MinNameLen
    /\ Len(d.player_name) <= MaxNameLen
    /\ d.score >= MinScore
    /\ d.snake_length >= MinSnakeLength
    /\ d.duration_seconds >= MinDuration

(* ---------------- the scores table and SQL over it ---------------- *)
Rows(s) == {s[i] : i \in 1..Len(s)}

RECURSIVE MaxOf(_)
MaxOf(S) ==
    LET x == CHOOSE y \in S : TRUE
    IN  IF S = {x} THEN x
        ELSE LET m == MaxOf(S \ {x}) IN IF x > m THEN x ELSE m

RECURSIVE SumScores(_, _)
SumScores(s, i) == IF i = 0 THEN 0 ELSE s[i].score + SumScores(s, i - 1)

NextId_Reused(s) == IF s = <<>> THEN 1 ELSE MaxOf({r.id : r \in Rows(s)})

NextId(s) == IF s = <<>> THEN 1 ELSE MaxOf({r.id : r \in Rows(s)}) + 1

CountAll_DistinctPlayers(s) == Cardinality({r.player_name : r \in Rows(s)})

CountAll(s) == Len(s)

CountDistinctPlayers(s) == Cardinality({r.player_name : r \in Rows(s)})

MaxScoreOf(s) == MaxOf({r.score : r \in Rows(s)})

MaxSnakeLength_OfTopScore(s) ==
    (CHOOSE r \in Rows(s) : \A q \in Rows(s) : r.score >= q.score).snake_length

MaxSnakeLength(s) == MaxOf({r.snake_length : r \in Rows(s)})

FilterByPlayer_Everyone(s, name) == s

FilterByPlayer(s, name) == SelectSeq(s, LAMBDA r : r.player_name = name)

(* GROUP BY player_name with max(score), as a function of the player *)
MaxScoreSubquery(s) ==
    [p \in {r.player_name : r \in Rows(s)} |->
        MaxOf({r.score : r \in {q \in Rows(s) : q.player_name = p}})]

JoinBest_AllRows(s) == Rows(s)

(* Score JOIN subquery ON player_name = player_name AND score = max_score *)
JoinBest(s) ==
    LET sub == MaxScoreSubquery(s)
    IN  {r \in Rows(s) : r.score = sub[r.player_name]}

RECURSIVE OrderByDesc_Ascending(_, _)
OrderByDesc_Ascending(S, col) ==
    IF S = {} THEN {<<>>}
    ELSE UNION {{<<x>> \o t : t \in OrderByDesc_Ascending(S \ {x}, col)} :
                  x \in {y \in S : \A z \in S : y[col] <= z[col]}}

(* ORDER BY col DESC: every order of the rows that is non-increasing in col;
   rows equal in col come in an order SQL leaves open *)
RECURSIVE OrderByDesc(_, _)
OrderByDesc(S, col) ==
    IF S = {} THEN {<<>>}
    ELSE UNION {{<<x>> \o t : t \in OrderByDesc(S \ {x}, col)} :
                  x \in {y \in S : \A z \in S : y[col] >= z[col]}}

LimitRows_NoLimit(seq, n) == seq

(* LIMIT n of SQLite: a negative n is no limit *)
LimitRows(seq, n) ==
    IF n < 0 THEN seq ELSE SubSeq(seq, 1, Min(n, Len(seq)))

(* ---------------- round(x, 1) of a quotient of integers ---------------- *)
RECURSIVE Pow2(_)
Pow2(k) == IF k = 0 THEN 1 ELSE 2 * Pow2(k - 1)

RECURSIVE Pow2Mod20(_)
Pow2Mod20(k) == IF k = 0 THEN 1 ELSE (2 * Pow2Mod20(k - 1)) % 20

(* the binary exponent e of m/20: 2^e <= m/20 < 2^(e+1) *)
RECURSIVE ExpDown(_, _)
ExpDown(m, j) == IF m * Pow2(j) >= 20 THEN 0 - j ELSE ExpDown(m, j + 1)

RECURSIVE ExpUp(_, _)
ExpUp(m, e) == IF 20 * Pow2(e + 1) > m THEN e ELSE ExpUp(m, e + 1)

BinaryExponent(m) == IF m >= 20 THEN ExpUp(m, 0) ELSE ExpDown(m, 1)

(* m odd, m/20 lies halfway between two tenths.  The double nearest to m/20
   has a 53-bit significand; it is m/20 exactly when 5 divides m, and is
   otherwise above m/20 exactly when the dropped part exceeds half a unit *)
DoubleIsAbove(m) == (m * Pow2Mod20(52 - BinaryExponent(m))) % 20 > 10

Round1_Truncated(total, n) == (10 * total) \div n

(* round(total / n, 1) in tenths: the double total/n is correctly rounded,
   and round() rounds the double's exact value, halves to even *)
Round1(total, n) ==
    LET q == (10 * total) \div n
        rem == (10 * total) % n
        m == 2 * q + 1
    IN  IF 2 * rem < n THEN q
        ELSE IF 2 * rem > n THEN q + 1
        ELSE IF m % 5 = 0 THEN (IF q % 2 = 0 THEN q ELSE q + 1)
        ELSE IF DoubleIsAbove(m) THEN q + 1 ELSE q

(* Python's  x or d *)
OrDefault(x, d) == IF x = 0 THEN d ELSE x

(* ---------------- main.py: the responses ---------------- *)
ScoreResponse(r) == [kind |-> "score", record |-> r]

LeaderboardEntry(idx, score) ==
    [rank |-> idx + 1,
     player_name |-> score.player_name,
     score |-> score.score,
     snake_length |-> score.snake_length,
     created_at |-> score.created_at]

(* idx enumerates from 0 *)
Entries(best_scores) ==
    [i \in 1..Len(best_scores) |-> LeaderboardEntry(i - 1, best_scores[i])]

LeaderboardResponse(best_scores, s, limit) ==
    [kind |-> "leaderboard",
     limit |-> limit,
     entries |-> Entries(best_scores),
     total_games |-> OrDefault(CountAll(s), 0)]

BestScoreResponse(s, player_name) ==
    LET player_scores == FilterByPlayer(s, player_name)
    IN  IF player_scores = <<>>
        THEN [kind |-> "best", player_name |-> player_name,
              best_score |-> 0, total_games |-> 0, average_score |-> 0]
        ELSE [kind |-> "best", player_name |-> player_name,
              best_score |-> MaxScoreOf(player_scores),
              total_games |-> Len(player_scores),
              average_score |->
                  Round1(SumScores(player_scores, Len(player_scores)),
                         Len(player_scores))]

EmptyGameStats_NoFloor ==
    [kind |-> "stats", total_games |-> 0, total_players |-> 0,
     highest_score |-> 0, average_score |-> 0, longest_snake |-> 0]

EmptyGameStats ==
    [kind |-> "stats", total_games |-> 0, total_players |-> 0,
     highest_score |-> 0, average_score |-> 0, longest_snake |-> 1]

(* avg(score) is the double sum/count, which is 0.0 exactly when the sum
   is 0, so  avg or 0.0  is taken on the sum *)
GameStatsResponse(s) ==
    LET total_games == OrDefault(CountAll(s), 0)
    IN  IF total_games = 0
        THEN EmptyGameStats
        ELSE [kind |-> "stats",
              total_games |-> total_games,
              total_players |-> OrDefault(CountDistinctPlayers(s), 0),
              highest_score |-> OrDefault(MaxScoreOf(s), 0),
              average_score |->
                  Round1(OrDefault(SumScores(s, Len(s)), 0), CountAll(s)),
              longest_snake |-> OrDefault(MaxSnakeLength(s), 1)]

(* ---------------- a request as the worker process runs it -------------- *)
(* worker is one request in flight in a worker process, from its arrival to
   the release of its session: pc is the position in the request, op the
   endpoint, arg the body or parameter, start and finish the number of
   records in the store at arrival and at the response, vals the values the
   handler has read so far, out the response, session the state of the
   Session that get_db made for the request and closes the number of times
   it was closed.  Before the first request there is no request and no
   Session, and the worker has its position only. *)
Idle == [pc |-> "idle"]

(* the positions at which the handler calls the database *)
DbCalls ==
    {"commit", "refresh", "count", "players", "highest", "avg", "longest",
     "rows", "board_count"}

(* the request arrives and its dependencies are solved: get_db makes the
   Session and yields it *)
Arrived(op, arg) ==
    [pc |-> "validate", op |-> op, arg |-> arg, start |-> Len(store),
     finish |-> 0, vals |-> <<>>, out |-> [status |-> 0], session |-> "open",
     closes |-> 0]

(* the handler returns or raises: get_db's finally block is next *)
Respond(out) ==
    [worker EXCEPT !.pc = "teardown", !.out = out, !.finish = Len(store)]

Read(value, next) ==
    [worker EXCEPT !.pc = next, !.vals = Append(worker.vals, value)]

(* ---------------- the state machine ---------------- *)
Init ==
    /\ store = <<>>
    /\ clock = 0
    /\ accepted = 0
    /\ resp = [kind |-> "none"]
    /\ worker = Idle

(* POST /api/scores *)
create_score ==
    \E input \in Submissions :
        LET score_data ==
                [input EXCEPT
                    !.player_name = WithDefault(input.player_name, DefaultName)]
        IN  IF ScoreCreateValid(score_data)
            THEN \E now \in {t \in ClockReadings : t >= clock} :
                    LET new_score ==
                            [id |-> NextId(store),
                             player_name |-> score_data.player_name,
                             score |-> score_data.score,
                             snake_length |-> score_data.snake_length,
                             duration_seconds |-> score_data.duration_seconds,
                             created_at |-> now]
                    IN  /\ Len(store) < MaxRecords
                        /\ store' = Append(store, new_score)
                        /\ clock' = now
                        /\ accepted' = accepted + 1
                        /\ resp' = ScoreResponse(new_score)
                        /\ UNCHANGED worker
            ELSE /\ resp' = [kind |-> "validation_error"]
                 /\ UNCHANGED <<store, clock, accepted, worker>>

(* GET /api/leaderboard *)
get_leaderboard ==
    \E ordered \in OrderByDesc(JoinBest(store), "score"), l \in LimitInputs :
        LET limit == WithDefault(l, DefaultLimit)
            best_scores == LimitRows(ordered, limit)
        IN  /\ resp' = LeaderboardResponse(best_scores, store, limit)
            /\ UNCHANGED <<store, clock, accepted, worker>>

(* GET /api/scores/best *)
get_best_score ==
    \E n \in QueryNames :
        /\ resp' = BestScoreResponse(store, WithDefault(n, DefaultName))
        /\ UNCHANGED <<store, clock, accepted, worker>>

(* GET /api/stats *)
get_game_stats ==
    /\ resp' = GameStatsResponse(store)
    /\ UNCHANGED <<store, clock, accepted, worker>>

(* GET /api/scores/history *)
get_score_history ==
    \E n \in QueryNames :
        LET player_name == WithDefault(n, DefaultName)
            rows == Rows(FilterByPlayer(store, player_name))
        IN  \E ordered \in OrderByDesc(rows, "created_at"), l \in LimitInputs :
                LET limit == WithDefault(l, DefaultHistoryLimit)
                    scores == LimitRows(ordered, limit)
                IN  /\ resp' = [kind |-> "history",
                                player_name |-> player_name,
                                limit |-> limit, scores |-> scores]
                    /\ UNCHANGED <<store, clock, accepted, worker>>

health_check_WritesProbe ==
    \E db_status \in {"connected", "error"} :
        /\ resp' = [kind |-> "health", status |-> "healthy",
                    database |-> db_status, version |-> "1.0.0"]
        /\ store' = IF Len(store) < MaxRecords
                    THEN Append(store, [id |-> NextId(store),
                                        player_name |-> DefaultName,
                                        score |-> MinScore,
                                        snake_length |-> MinSnakeLength,
                                        duration_seconds |-> MinDuration,
                                        created_at |-> clock])
                    ELSE store
        /\ UNCHANGED <<clock, accepted, worker>>

(* GET /api/health: db.execute("SELECT 1") succeeds or raises *)
health_check ==
    \E db_status \in {"connected", "error"} :
        /\ resp' = [kind |-> "health", status |-> "healthy",
                    database |-> db_status, version |-> "1.0.0"]
        /\ UNCHANGED <<store, clock, accepted, worker>>

(* ---- the same handlers one database call at a time ---- *)
Normalised(input) ==
    [input EXCEPT !.player_name = WithDefault(input.player_name, DefaultName)]

(* POST /api/scores arrives *)
w_receive_submit ==
    \E input \in Submissions :
        /\ worker.pc \in {"idle", "done"}
        /\ Len(store) < MaxRecords
        /\ worker' = Arrived("submit", Normalised(input))
        /\ UNCHANGED <<store, clock, accepted, resp>>

(* GET /api/stats arrives *)
w_receive_stats ==
    /\ worker.pc \in {"idle", "done"}
    /\ worker' = Arrived("stats", Omitted)
    /\ UNCHANGED <<store, clock, accepted, resp>>

(* GET /api/leaderboard arrives *)
w_receive_leaderboard ==
    \E l \in LimitInputs :
        /\ worker.pc \in {"idle", "done"}
        /\ worker' = Arrived("leaderboard", WithDefault(l, DefaultLimit))
        /\ UNCHANGED <<store, clock, accepted, resp>>

(* the body is checked against ScoreCreate before the handler is called *)
w_validate ==
    /\ worker.pc = "validate"
    /\ worker' =
          IF worker.op = "submit" /\ ~ScoreCreateValid(worker.arg)
          THEN Respond([status |-> 422])
          ELSE [worker EXCEPT !.pc = CASE worker.op = "submit" -> "commit"
                                      [] worker.op = "stats" -> "count"
                                      [] OTHER -> "rows"]
    /\ UNCHANGED <<store, clock, accepted, resp>>

(* db.add(new_score); db.commit() *)
w_commit ==
    /\ worker.pc = "commit"
    /\ \E now \in {t \in ClockReadings : t >= clock} :
          LET new_score ==
                  [id |-> NextId(store),
                   player_name |-> worker.arg.player_name,
                   score |-> worker.arg.score,
                   snake_length |-> worker.arg.snake_length,
                   duration_seconds |-> worker.arg.duration_seconds,
                   created_at |-> now]
          IN  /\ store' = Append(store, new_score)
              /\ clock' = now
              /\ accepted' = accepted + 1
              /\ worker' = Read(new_score, "refresh")
    /\ UNCHANGED resp

(* db.refresh(new_score); return new_score *)
w_refresh ==
    /\ worker.pc = "refresh"
    /\ worker' = Respond([status |-> 200, body |-> ScoreResponse(worker.vals[1])])
    /\ UNCHANGED <<store, clock, accepted, resp>>

w_store_failure_NoFinally ==
    /\ worker.pc \in DbCalls
    /\ worker' = [worker EXCEPT !.pc = "done", !.finish = Len(store),
                                !.out = [status |-> 500, failed_at |-> worker.pc]]
    /\ UNCHANGED <<store, clock, accepted, resp>>

(* a database call of the handler raises: nothing is written, the exception
   leaves the handler *)
w_store_failure ==
    /\ worker.pc \in DbCalls
    /\ worker' = Respond([status |-> 500, failed_at |-> worker.pc])
    /\ UNCHANGED <<store, clock, accepted, resp>>

(* total_games = db.query(func.count(Score.id)).scalar() or 0 *)
w_stats_count ==
    /\ worker.pc = "count"
    /\ LET total_games == OrDefault(CountAll(store), 0)
       IN  worker' = IF total_games = 0
                     THEN Respond([status |-> 200, body |-> EmptyGameStats])
                     ELSE Read(total_games, "players")
    /\ UNCHANGED <<store, clock, accepted, resp>>

w_stats_players ==
    /\ worker.pc = "players"
    /\ worker' = Read(OrDefault(CountDistinctPlayers(store), 0), "highest")
    /\ UNCHANGED <<store, clock, accepted, resp>>

w_stats_highest ==
    /\ worker.pc = "highest"
    /\ worker' = Read(IF store = <<>> THEN 0 ELSE OrDefault(MaxScoreOf(store), 0),
                      "avg")
    /\ UNCHANGED <<store, clock, accepted, resp>>

w_stats_avg ==
    /\ worker.pc = "avg"
    /\ worker' = Read(IF store = <<>> THEN 0
                      ELSE Round1(OrDefault(SumScores(store, Len(store)), 0),
                                  CountAll(store)),
                      "longest")
    /\ UNCHANGED <<store, clock, accepted, resp>>

w_stats_longest ==
    /\ worker.pc = "longest"
    /\ LET longest_snake ==
               IF store = <<>> THEN 1 ELSE OrDefault(MaxSnakeLength(store), 1)
       IN  worker' = Respond([status |-> 200,
                              body |-> [kind |-> "stats",
                                        total_games |-> worker.vals[1],
                                        total_players |-> worker.vals[2],
                                        highest_score |-> worker.vals[3],
                                        average_score |-> worker.vals[4],
                                        longest_snake |-> longest_snake]])
    /\ UNCHANGED <<store, clock, accepted, resp>>

(* best_scores = db.query(Score).join(...).order_by(...).limit(limit).all() *)
w_board_rows ==
    /\ worker.pc = "rows"
    /\ \E ordered \in OrderByDesc(JoinBest(store), "score") :
          worker' = Read(Entries(LimitRows(ordered, worker.arg)), "board_count")
    /\ UNCHANGED <<store, clock, accepted, resp>>

(* total_games = db.query(func.count(Score.id)).scalar() or 0 *)
w_board_count ==
    /\ worker.pc = "board_count"
    /\ worker' = Respond([status |-> 200,
                          body |-> [kind |-> "leaderboard",
                                    limit |-> worker.arg,
                                    entries |-> worker.vals[1],
                                    total_games |-> OrDefault(CountAll(store), 0)]])
    /\ UNCHANGED <<store, clock, accepted, resp>>

(* get_db: finally: db.close() *)
w_close ==
    /\ worker.pc = "teardown"
    /\ worker' = [worker EXCEPT !.pc = "done", !.session = "closed",
                                !.closes = worker.closes + 1]
    /\ UNCHANGED <<store, clock, accepted, resp>>

Next ==
    \/ create_score
    \/ get_leaderboard
    \/ get_best_score
    \/ get_game_stats
    \/ get_score_history
    \/ health_check

Spec == Init /\ [][Next]_vars

(* The submission path with the leaderboard and the global statistics, and
   with the player summary and the global statistics.  The handlers left out
   write neither store, clock nor accepted, so the stores reached are those
   of Spec. *)
NextBoard ==
    \/ create_score
    \/ get_leaderboard
    \/ get_game_stats

SpecBoard == Init /\ [][NextBoard]_vars

NextSummary ==
    \/ create_score
    \/ get_best_score
    \/ get_game_stats

SpecSummary == Init /\ [][NextSummary]_vars

(* The submission path with the player history. *)
NextHistory ==
    \/ create_score
    \/ get_score_history

SpecHistory == Init /\ [][NextHistory]_vars

(* One worker process running submissions and statistics requests, one
   database call at a time.  A request in flight is carried on: the event
   loop runs the handler to its end and then the exit code of get_db. *)
WorkerStep ==
    \/ w_validate
    \/ w_commit
    \/ w_refresh
    \/ w_store_failure
    \/ w_stats_count
    \/ w_stats_players
    \/ w_stats_highest
    \/ w_stats_avg
    \/ w_stats_longest
    \/ w_close

NextSessions ==
    \/ w_receive_submit
    \/ w_receive_stats
    \/ WorkerStep

SpecSessions == Init /\ [][NextSessions]_vars /\ WF_vars(WorkerStep)

(* A worker process running statistics and leaderboard requests one database
   call at a time while another process appends (create_score); the runs in
   which every database call of the worker succeeds. *)
NextWorkers ==
    \/ create_score
    \/ w_receive_stats
    \/ w_receive_leaderboard
    \/ w_validate
    \/ w_stats_count
    \/ w_stats_players
    \/ w_stats_highest
    \/ w_stats_avg
    \/ w_stats_longest
    \/ w_board_rows
    \/ w_board_count
    \/ w_close

SpecWorkers == Init /\ [][NextWorkers]_vars

(* ---------------- vocabulary of the properties ---------------- *)
IsBoard == resp.kind = "leaderboard"
IsBest == resp.kind = "best"
IsStats == resp.kind = "stats"
Stored == {store[i] : i \in 1..Len(store)}
Players == {r.player_name : r \in Stored}
RecordsOf(p) == {r \in Stored : r.player_name = p}
Shown == {resp.entries[i].player_name : i \in 1..Len(resp.entries)}
Positions == 1..Len(resp.entries)

RECURSIVE TotalScore(_)
TotalScore(S) ==
    IF S = {} THEN 0
    ELSE LET r == CHOOSE x \in S : TRUE IN r.score + TotalScore(S \ {r})

(* a is, in tenths, a multiple of one tenth nearest to total/n *)
IsMeanToOneDecimal(a, total, n) ==
    /\ 2 * (a * n - 10 * total) <= n
    /\ 2 * (10 * total - a * n) <= n

(* C1: for a positive limit, each distinct player_name appears in at most one
   entry of the leaderboard, also when a player has several records sharing
   the player's maximum score. *)
C1_OnePerPlayer ==
    (IsBoard /\ resp.limit > 0) =>
        \A i, j \in Positions :
            i # j => resp.entries[i].player_name # resp.entries[j].player_name

(* C2: for a positive limit the leaderboard has at most limit entries, and
   the entry at 0-based position i has rank i+1, also when scores are equal. *)
C2_AtMostLimitRanked ==
    (IsBoard /\ resp.limit > 0) =>
        /\ Len(resp.entries) <= resp.limit
        /\ \A k \in Positions : resp.entries[k].rank = (k - 1) + 1

C2_Witness ==
    /\ IsBoard
    /\ resp.limit = 2
    /\ Len(resp.entries) = 2
    /\ Len(store) = 3
    /\ resp.entries[1].score = resp.entries[2].score
    /\ resp.entries[2].rank = 2

(* C3: for every limit <= 0 the leaderboard has no entries, and total_games
   is the number of records in the store. *)
C3_NonPositiveLimitEmpty ==
    (IsBoard /\ resp.limit <= 0) =>
        /\ resp.entries = <<>>
        /\ resp.total_games = Len(store)

(* C4: total_games of the global statistics and of the leaderboard is the
   number of accepted submissions, which is the number of records in the
   store and not the number of entries shown. *)
C4_TotalGamesCountsAll ==
    (IsStats \/ IsBoard) =>
        /\ resp.total_games = accepted
        /\ resp.total_games = Len(store)

C4_Witness ==
    /\ IsBoard
    /\ accepted = 3
    /\ resp.total_games = 3
    /\ Len(resp.entries) = 1

C6_OrderedByScoreDesc ==
    IsBoard =>
        /\ \A i, j \in Positions :
                i < j => resp.entries[i].score >= resp.entries[j].score
        /\ \A r \in Stored :
                r.player_name \notin Shown =>
                    \A k \in Positions : r.score <= resp.entries[k].score

C6_Witness ==
    /\ IsBoard
    /\ resp.limit = 1
    /\ Len(resp.entries) = 1
    /\ \E r \in Stored :
            /\ r.player_name \notin Shown
            /\ r.score < resp.entries[1].score

(* C7: for a positive limit the number of entries is min(limit, number of
   distinct players), and when limit is at least the number of distinct
   players every player with a record appears. *)
C7_OneEntryPerPlayerUpToLimit ==
    (IsBoard /\ resp.limit > 0) =>
        /\ Len(resp.entries) = Min(resp.limit, Cardinality(Players))
        /\ resp.limit >= Cardinality(Players) => Players \subseteq Shown

(* C8: for a player with at least one record the summary has best_score the
   maximum score of the player's records, total_games their number, and
   average_score their mean to one decimal place, between the least and the
   greatest of those scores; other players' records play no part. *)
C8_PlayerSummary ==
    (IsBest /\ RecordsOf(resp.player_name) # {}) =>
        LET mine == RecordsOf(resp.player_name)
        IN  /\ \E r \in mine : r.score = resp.best_score
            /\ \A r \in mine : r.score <= resp.best_score
            /\ resp.total_games = Cardinality(mine)
            /\ IsMeanToOneDecimal(resp.average_score, TotalScore(mine),
                                  Cardinality(mine))
            /\ \E r \in mine : 10 * r.score <= resp.average_score
            /\ \E r \in mine : resp.average_score <= 10 * r.score

C8_Witness ==
    /\ IsBest
    /\ resp.total_games = 3
    /\ resp.best_score = 1
    /\ resp.average_score = 7

(* C9: on a non-empty store the global statistics have total_players the
   number of distinct player_name values, highest_score the maximum score,
   longest_snake the maximum snake_length, and average_score the mean score
   to one decimal place. *)
C9_GlobalStats ==
    (IsStats /\ Len(store) > 0) =>
        /\ resp.total_players = Cardinality(Players)
        /\ \E r \in Stored : r.score = resp.highest_score
        /\ \A r \in Stored : r.score <= resp.highest_score
        /\ \E r \in Stored : r.snake_length = resp.longest_snake
        /\ \A r \in Stored : r.snake_length <= resp.longest_snake
        /\ IsMeanToOneDecimal(resp.average_score, TotalScore(Stored),
                              Cardinality(Stored))

C9_Witness ==
    /\ IsStats
    /\ resp.total_players = 2
    /\ resp.total_games = 3
    /\ resp.average_score = 3
    /\ \E r \in Stored :
            r.score = resp.highest_score /\ r.snake_length < resp.longest_snake

(* C10: the global statistics of an empty store are exactly
   {total_games 0, total_players 0, highest_score 0, average_score 0.0,
   longest_snake 1}, and the summary of a name without records is exactly
   {name, best_score 0, total_games 0, average_score 0.0}, whatever records
   other players have; neither is an error. *)
C10_NoDataIsZero ==
    /\ (IsStats /\ store = <<>>) =>
            /\ resp.total_games = 0
            /\ resp.total_players = 0
            /\ resp.highest_score = 0
            /\ resp.average_score = 0
            /\ resp.longest_snake = 1
    /\ (IsBest /\ RecordsOf(resp.player_name) = {}) =>
            /\ resp.best_score = 0
            /\ resp.total_games = 0
            /\ resp.average_score = 0

C10_Witness ==
    /\ IsBest
    /\ resp.player_name = DefaultName
    /\ RecordsOf(DefaultName) = {}
    /\ Len(store) = 2

(* C11: for a positive limit the history holds only stored records of the
   player asked for, at most limit of them, in non-increasing created_at,
   and no record of the player left out is strictly later than one
   returned. *)
IsHistory == resp.kind = "history"
Returned == {resp.scores[k] : k \in 1..Len(resp.scores)}

C11_HistoryMostRecentFirst ==
    (IsHistory /\ resp.limit > 0) =>
        /\ Returned \subseteq RecordsOf(resp.player_name)
        /\ Len(resp.scores) <= resp.limit
        /\ \A i, j \in 1..Len(resp.scores) :
                i < j => resp.scores[i].created_at >= resp.scores[j].created_at
        /\ \A r \in RecordsOf(resp.player_name) \ Returned :
                \A k \in 1..Len(resp.scores) :
                    r.created_at <= resp.scores[k].created_at

C11_Witness ==
    /\ IsHistory
    /\ resp.limit = 2
    /\ Len(resp.scores) = 2
    /\ Cardinality(Players) = 1
    /\ \E r \in RecordsOf(resp.player_name) \ Returned :
            r.created_at < resp.scores[2].created_at

(* C12: a submission with score < 0, snake_length < 1, duration_seconds < 0
   or a player_name that is empty or longer than 50 characters is answered by
   a validation failure and the store is as it was when the submission
   arrived; every record in the store has score >= 0, snake_length >= 1,
   duration_seconds >= 0 and a player_name of 1 to 50 characters. *)
OutOfRange(d) ==
    \/ d.score < 0
    \/ d.snake_length < 1
    \/ d.duration_seconds < 0
    \/ Len(d.player_name) = 0
    \/ Len(d.player_name) > 50

C12_RejectedBeforeWrite ==
    /\ \A r \in Stored : ~OutOfRange(r)
    /\ (worker.pc # "idle" /\ worker.op = "submit" /\ OutOfRange(worker.arg)) =>
            /\ Len(store) = worker.start
            /\ worker.pc \in {"teardown", "done"} => worker.out.status = 422

C12_Witness ==
    /\ worker.pc = "done"
    /\ worker.op = "submit"
    /\ worker.arg.score < 0
    /\ worker.out.status = 422
    /\ Len(store) = 2

(* C13 as stated: a step that answers one of the four queries or the health
   check leaves the store unchanged, and a query that repeats the query just
   answered (same endpoint, same parameters, no append in between) returns
   the identical result. *)
ReadKinds == {"leaderboard", "best", "stats", "history", "health"}

ReadsLeaveStore == resp'.kind \in ReadKinds => store' = store

Repeated ==
    /\ store' = store
    /\ resp.kind = resp'.kind
    /\ \/ resp.kind = "stats"
       \/ resp.kind = "best" /\ resp.player_name = resp'.player_name
       \/ resp.kind = "leaderboard" /\ resp.limit = resp'.limit
       \/ /\ resp.kind = "history"
          /\ resp.player_name = resp'.player_name
          /\ resp.limit = resp'.limit

BestRows == {r \in Stored : \A q \in RecordsOf(r.player_name) : q.score <= r.score}

TiedScore(v) == Cardinality({r \in BestRows : r.score = v}) > 1

TiedTime(p, t) == Cardinality({r \in RecordsOf(p) : r.created_at = t}) > 1

SameUpToTies ==
    CASE resp.kind = "leaderboard" ->
            /\ resp'.total_games = resp.total_games
            /\ Len(resp'.entries) = Len(resp.entries)
            /\ \A k \in 1..Len(resp.entries) :
                    /\ resp'.entries[k].score = resp.entries[k].score
                    /\ resp'.entries[k].rank = resp.entries[k].rank
                    /\ ~TiedScore(resp.entries[k].score) =>
                            resp'.entries[k] = resp.entries[k]
      [] resp.kind = "history" ->
            /\ Len(resp'.scores) = Len(resp.scores)
            /\ \A k \in 1..Len(resp.scores) :
                    /\ resp'.scores[k].created_at = resp.scores[k].created_at
                    /\ ~TiedTime(resp.player_name, resp.scores[k].created_at) =>
                            resp'.scores[k] = resp.scores[k]
      [] OTHER -> resp' = resp

IdsIncrease ==
    \A i, j \in 1..Len(store) : i < j => store[i].id < store[j].id

RecordsKept ==
    /\ Len(store') >= Len(store)
    /\ \A i \in 1..Len(store) : store'[i] = store[i]

C14_AppendOnlyLog == []IdsIncrease /\ [][RecordsKept]_vars

C14_Witness ==
    /\ Len(store) = 3
    /\ store[3].id = 3
    /\ resp.kind = "history"
    /\ Len(resp.scores) = 2

(* C15: when appends of another process interleave with a statistics or
   leaderboard request, the result returned equals what the view yields on
   one single state of the store that existed between the arrival of the
   request and its response. *)
StoreAt(n) == SubSeq(store, 1, n)

ViewOn(snapshot) ==
    IF worker.op = "stats"
    THEN {GameStatsResponse(snapshot)}
    ELSE {LeaderboardResponse(LimitRows(ordered, worker.arg), snapshot, worker.arg) :
            ordered \in OrderByDesc(JoinBest(snapshot), "score")}

C15_ViewOfOneStoreState ==
    (/\ worker.pc \in {"teardown", "done"}
     /\ worker.op \in {"stats", "leaderboard"}
     /\ worker.out.status = 200) =>
        \E n \in worker.start..worker.finish :
            worker.out.body \in ViewOn(StoreAt(n))

(* C16: the session get_db opens for a request is closed, once, on each way
   out of the request (return, validation failure, a database call that
   raises): it is never closed twice, a request that is over has its session
   closed exactly once, an open session is eventually closed, and a
   submission whose commit raised has added no record. *)
SessionIs(s) == worker.pc # "idle" /\ worker.session = s

SessionReleased ==
    worker.pc # "idle" =>
        /\ worker.closes <= 1
        /\ worker.session = "closed" <=> worker.closes = 1
        /\ worker.pc = "done" => worker.session = "closed"
        /\ (worker.out.status = 500 /\ worker.out.failed_at = "commit") =>
                Len(store) = worker.start

C16_SessionClosedOnEveryPath ==
    /\ []SessionReleased
    /\ SessionIs("open") ~> SessionIs("closed")

C16_Witness ==
    /\ worker.pc = "done"
    /\ worker.op = "submit"
    /\ worker.out.status = 500
    /\ worker.out.failed_at = "commit"
    /\ worker.closes = 1
    /\ Len(store) = 1

====
